---------------------------- MODULE Spec2Model ----------------------------
(***************************************************************************)
(* yadslib::binary_search_tree<_Key, _Alloc> (src/include/bst.h): a binary *)
(* search tree with parent pointers and no duplicate keys.                 *)
(*                                                                         *)
(* The heap is a finite array of node cells.  A cell is either allocated   *)
(* (in `allocated`) or not.  Every public operation of the container is    *)
(* one action.  An operation that loops for ever (a walk caught in a cycle *)
(* of links) ends in st = "hang"; one that dereferences a null pointer or  *)
(* a deallocated cell ends in st = "ub".  Both are final.                  *)
(***************************************************************************)
EXTENDS Integers, Sequences, FiniteSets, TLC

\* number of cells of the heap
MaxNodes == 3
\* keys are 1..MaxKey
MaxKey == 3

NULL == 0
Addr == 1..MaxNodes
Ptr == 0..MaxNodes
Keys == 1..MaxKey

VARIABLES
    root,       \* node* root
    m_size,     \* size_t m_size
    heap,       \* the node cells: data, parent, edge[0], edge[1]
    allocated,  \* cells handed out by node_alloc.allocate, not yet deallocated
    st,         \* "ok" | "hang" | "ub"
    ret,        \* the last call and what it returned
    it,         \* io_node of the caller's iterator
    seen,       \* keys read through the iterator since begin()
    trav,       \* "live" from begin() until the tree is changed, else "stale"
    keys        \* the keys inserted and not erased since: the set the tree stands for

vars == <<root, m_size, heap, allocated, st, ret, it, seen, trav, keys>>

\* size_t arithmetic.  m_size stays within 0..MaxNodes, where any modulus
\* above MaxNodes gives the values of 2^64
SizeMod == 2^16
Dec(n) == (n + SizeMod - 1) % SizeMod
Inc(n) == (n + 1) % SizeMod

Edges(l, r) == (0 :> l) @@ (1 :> r)

\* content of a cell that is not allocated: never read
Blank == [data |-> 0, parent |-> NULL, edge |-> Edges(NULL, NULL)]

\* the outcome of a walk
Ok(n) == [st |-> "ok", n |-> n]
Hang == [st |-> "hang", n |-> NULL]
Ub == [st |-> "ub", n |-> NULL]

(***************************************************************************)
(* node::left_most: while (pnode->left()) pnode = pnode->left();           *)
(* A walk that takes more than MaxNodes steps has visited a cell twice and *)
(* never ends.                                                             *)
(***************************************************************************)
RECURSIVE LeftMostWalk(_, _, _, _)
LeftMostWalk(h, live, pnode, fuel) ==
    IF pnode \notin live THEN Ub
    ELSE IF h[pnode].edge[0] = NULL THEN Ok(pnode)
    ELSE IF fuel = 0 THEN Hang
    ELSE LeftMostWalk(h, live, h[pnode].edge[0], fuel - 1)

left_most(h, live, pnode) == LeftMostWalk(h, live, pnode, MaxNodes)

RECURSIVE RightMostWalk(_, _, _, _)
RightMostWalk(h, live, pnode, fuel) ==
    IF pnode \notin live THEN Ub
    ELSE IF h[pnode].edge[1] = NULL THEN Ok(pnode)
    ELSE IF fuel = 0 THEN Hang
    ELSE RightMostWalk(h, live, h[pnode].edge[1], fuel - 1)

right_most(h, live, pnode) == RightMostWalk(h, live, pnode, MaxNodes)

\* inorder_traversal(_node, _from_start)
inorder_traversal(h, live, node, from_start) ==
    IF node # NULL /\ from_start THEN left_most(h, live, node) ELSE Ok(node)

\* begin(): iterator(root, true);  end(): iterator(NULL, false)
begin(h, live, r) == inorder_traversal(h, live, r, TRUE)
end == NULL

(***************************************************************************)
(* inorder_traversal::successor                                            *)
(***************************************************************************)
RECURSIVE ClimbWalk(_, _, _, _)
ClimbWalk(h, live, io_node, fuel) ==
    IF io_node \notin live THEN Ub
    ELSE IF h[io_node].parent = NULL THEN Ok(NULL)
    ELSE IF h[io_node].parent \notin live THEN Ub
    ELSE IF io_node = h[h[io_node].parent].edge[0] THEN Ok(h[io_node].parent)
    ELSE IF fuel = 0 THEN Hang
    ELSE ClimbWalk(h, live, h[io_node].parent, fuel - 1)

\* successor that steps to the right kid itself, not to its left most node
successorNoLeftMost(h, live, io_node) ==
    IF io_node = NULL THEN Ok(NULL)
    ELSE IF io_node \notin live THEN Ub
    ELSE IF h[io_node].edge[1] # NULL THEN Ok(h[io_node].edge[1])
    ELSE ClimbWalk(h, live, io_node, MaxNodes)

successor(h, live, io_node) ==
    IF io_node = NULL THEN Ok(NULL)
    ELSE IF io_node \notin live THEN Ub
    ELSE IF h[io_node].edge[1] # NULL THEN left_most(h, live, h[io_node].edge[1])
    ELSE ClimbWalk(h, live, io_node, MaxNodes)

\* node_iterator::operator==: both past the end, or both on equal keys
IterEq(h, a, b) ==
    \/ a = NULL /\ b = NULL
    \/ a # NULL /\ b # NULL /\ h[a].data = h[b].data

(***************************************************************************)
(* find_node: n = root; while (n && x != n->data) n = n->edge[dir]         *)
(***************************************************************************)
RECURSIVE FindWalk(_, _, _, _, _, _)
FindWalk(h, live, x, n, dir, fuel) ==
    IF n = NULL THEN [st |-> "ok", n |-> NULL, dir |-> dir]
    ELSE IF n \notin live THEN [st |-> "ub", n |-> NULL, dir |-> dir]
    ELSE IF x = h[n].data THEN [st |-> "ok", n |-> n, dir |-> dir]
    ELSE IF fuel = 0 THEN [st |-> "hang", n |-> NULL, dir |-> dir]
    ELSE LET d == IF x < h[n].data THEN 0 ELSE 1
         IN  FindWalk(h, live, x, h[n].edge[d], d, fuel - 1)

find_node(h, live, r, x) == FindWalk(h, live, x, r, 0, MaxNodes)

(***************************************************************************)
(* create_node: allocate, set data and parent, ++m_size.  edge[0] and      *)
(* edge[1] are not written: they hold whatever the block held, l and r.    *)
(***************************************************************************)
create_node(h, nn, x, par, l, r) ==
    [h EXCEPT ![nn] = [data |-> x, parent |-> par, edge |-> Edges(l, r)]]

\* the loop of insert without its test x == pn->data: an equal key goes right
RECURSIVE InsertWalkNoEq(_, _, _, _, _)
InsertWalkNoEq(h, live, x, pn, fuel) ==
    IF pn \notin live THEN [st |-> "ub", found |-> FALSE, pn |-> pn, dir |-> 0]
    ELSE LET dir == IF x < h[pn].data THEN 0 ELSE 1
             n == h[pn].edge[dir]
         IN  IF n = NULL THEN [st |-> "ok", found |-> FALSE, pn |-> pn, dir |-> dir]
             ELSE IF fuel = 0 THEN [st |-> "hang", found |-> FALSE, pn |-> pn, dir |-> dir]
             ELSE InsertWalkNoEq(h, live, x, n, fuel - 1)

(***************************************************************************)
(* The loop of insert: the node holding x, or the node and the direction   *)
(* of the empty slot where x goes.                                         *)
(***************************************************************************)
RECURSIVE InsertWalk(_, _, _, _, _)
InsertWalk(h, live, x, pn, fuel) ==
    IF pn \notin live THEN [st |-> "ub", found |-> FALSE, pn |-> pn, dir |-> 0]
    ELSE IF x = h[pn].data THEN [st |-> "ok", found |-> TRUE, pn |-> pn, dir |-> 0]
    ELSE LET dir == IF x < h[pn].data THEN 0 ELSE 1
             n == h[pn].edge[dir]
         IN  IF n = NULL THEN [st |-> "ok", found |-> FALSE, pn |-> pn, dir |-> dir]
             ELSE IF fuel = 0 THEN [st |-> "hang", found |-> FALSE, pn |-> pn, dir |-> dir]
             ELSE InsertWalk(h, live, x, n, fuel - 1)

Call(op, key, val, pos) == [op |-> op, key |-> key, val |-> val, pos |-> pos]

\* the container's own state, as one value the private operations work on
Tree == [root |-> root, m_size |-> m_size, heap |-> heap, allocated |-> allocated,
         st |-> "ok", calls |-> MaxNodes * (MaxNodes + 1)]

Stop(t, how) == [t EXCEPT !.st = how]

(***************************************************************************)
(* destroy_node: if (--m_size == 0 && pnode->parent == NULL) root = NULL;  *)
(* node_alloc.deallocate(pnode, 1)                                         *)
(***************************************************************************)
destroy_node(t, pnode) ==
    IF pnode \notin t.allocated THEN Stop(t, "ub")
    ELSE LET sz == Dec(t.m_size)
         IN  [t EXCEPT !.m_size = sz,
                       !.root = IF sz = 0 /\ t.heap[pnode].parent = NULL THEN NULL ELSE @,
                       !.allocated = @ \ {pnode},
                       !.heap[pnode] = Blank]

(***************************************************************************)
(* destroy_node_descendants: left subtree, right subtree, then the node's  *)
(* edge in its parent is cleared and the node destroyed.  A run that       *)
(* returns makes at most MaxNodes calls (each frees one cell), and between *)
(* two returns the descent is a walk through unchanged cells, so a run of  *)
(* more than MaxNodes * (MaxNodes + 1) calls recurses for ever.            *)
(***************************************************************************)
RECURSIVE destroy_node_descendants(_, _)
destroy_node_descendants(t, pnode) ==
    IF t.st # "ok" THEN t
    ELSE IF pnode \notin t.allocated THEN Stop(t, "ub")
    ELSE IF t.calls = 0 THEN Stop(t, "hang")
    ELSE
      LET t0 == [t EXCEPT !.calls = @ - 1]
          l == t0.heap[pnode].edge[0]
          t1 == IF l # NULL THEN destroy_node_descendants(t0, l) ELSE t0
      IN  IF t1.st # "ok" THEN t1
          ELSE IF pnode \notin t1.allocated THEN Stop(t1, "ub")
          ELSE
            LET r == t1.heap[pnode].edge[1]
                t2 == IF r # NULL THEN destroy_node_descendants(t1, r) ELSE t1
            IN  IF t2.st # "ok" THEN t2
                ELSE IF pnode \notin t2.allocated THEN Stop(t2, "ub")
                ELSE
                  LET par == t2.heap[pnode].parent
                  IN  IF par = NULL THEN destroy_node(t2, pnode)
                      ELSE IF par \notin t2.allocated THEN Stop(t2, "ub")
                      ELSE
                        LET d == IF t2.heap[pnode].data < t2.heap[par].data THEN 0 ELSE 1
                        IN  destroy_node([t2 EXCEPT !.heap[par].edge[d] = NULL], pnode)

\* clear(): if (root) destroy_node_descendants(root)
clear(t) == IF t.root # NULL THEN destroy_node_descendants(t, t.root) ELSE t

(***************************************************************************)
(* erase, n has no right kid                                               *)
(***************************************************************************)
EraseNoRight(t, n, pn, dir) ==
    LET left == t.heap[n].edge[0]
    IN  IF left # NULL /\ left \notin t.allocated THEN Stop(t, "ub")
        ELSE IF pn # NULL /\ pn \notin t.allocated THEN Stop(t, "ub")
        ELSE
          LET t1 == IF left # NULL THEN [t EXCEPT !.heap[left].parent = pn] ELSE t
              t2 == IF pn # NULL
                    THEN [t1 EXCEPT !.heap[pn].edge[dir] = t1.heap[n].edge[0]]
                    ELSE [t1 EXCEPT !.root = t1.heap[n].edge[0]]
          IN  destroy_node(t2, n)

(***************************************************************************)
(* erase, n's right kid rn has no left kid                                 *)
(***************************************************************************)
EraseRightNoLeft(t, n, pn, rn, dir) ==
    LET t1 == [t EXCEPT !.heap[rn].edge[0] = t.heap[n].edge[0]]
        kid == t1.heap[rn].edge[0]
    IN  IF kid # NULL /\ kid \notin t.allocated THEN Stop(t, "ub")
        ELSE IF pn # NULL /\ pn \notin t.allocated THEN Stop(t, "ub")
        ELSE
          LET t2 == IF kid # NULL THEN [t1 EXCEPT !.heap[kid].parent = rn] ELSE t1
              t3 == [t2 EXCEPT !.heap[rn].parent = pn]
              t4 == IF pn # NULL
                    THEN [t3 EXCEPT !.heap[pn].edge[dir] = rn]
                    ELSE [t3 EXCEPT !.root = rn]
          IN  destroy_node(t4, n)

(***************************************************************************)
(* the third case of erase without std::swap(n->data, ln->data): ln's cell  *)
(* is destroyed with its own key in it                                     *)
(***************************************************************************)
EraseRightLeftNoSwap(t, n, rn) ==
    LET lw == left_most(t.heap, t.allocated, t.heap[rn].edge[0])
    IN  IF lw.st # "ok" THEN Stop(t, lw.st)
        ELSE
          LET ln == lw.n
              lp == t.heap[ln].parent
          IN  IF lp \notin t.allocated THEN Stop(t, "ub")
              ELSE
                LET t1 == [t EXCEPT !.heap[lp].edge[0] = t.heap[ln].edge[1]]
                    kid == t1.heap[ln].edge[1]
                IN  IF kid # NULL /\ kid \notin t.allocated THEN Stop(t, "ub")
                    ELSE
                      LET t2 == IF kid # NULL
                                THEN [t1 EXCEPT !.heap[kid].parent = t1.heap[ln].parent]
                                ELSE t1
                      IN  destroy_node(t2, ln)

(***************************************************************************)
(* erase, n's right kid has a left kid: ln, the left most descendant, is   *)
(* unlinked, the data of n and ln are swapped and ln's cell is destroyed   *)
(***************************************************************************)
EraseRightLeft(t, n, rn) ==
    LET lw == left_most(t.heap, t.allocated, t.heap[rn].edge[0])
    IN  IF lw.st # "ok" THEN Stop(t, lw.st)
        ELSE
          LET ln == lw.n
              lp == t.heap[ln].parent
          IN  IF lp \notin t.allocated THEN Stop(t, "ub")
              ELSE
                LET t1 == [t EXCEPT !.heap[lp].edge[0] = t.heap[ln].edge[1]]
                    kid == t1.heap[ln].edge[1]
                IN  IF kid # NULL /\ kid \notin t.allocated THEN Stop(t, "ub")
                    ELSE
                      LET t2 == IF kid # NULL
                                THEN [t1 EXCEPT !.heap[kid].parent = t1.heap[ln].parent]
                                ELSE t1
                          t3 == [t2 EXCEPT !.heap = [a \in Addr |->
                                    IF a = ln THEN [t2.heap[a] EXCEPT !.data = t2.heap[n].data]
                                    ELSE IF a = n THEN [t2.heap[a] EXCEPT !.data = t2.heap[ln].data]
                                    ELSE t2.heap[a]]]
                      IN  destroy_node(t3, ln)

(***************************************************************************)
(* erase(x): the tree afterwards, and in `val` what erase returns          *)
(***************************************************************************)
erase(t, x) ==
    LET f == find_node(t.heap, t.allocated, t.root, x)
        n == f.n
    IN  IF f.st # "ok" THEN [tree |-> Stop(t, f.st), val |-> 0]
        ELSE IF n = NULL THEN [tree |-> t, val |-> 0]
        ELSE
          LET pn == t.heap[n].parent
              rn == t.heap[n].edge[1]
          IN  [tree |->
                 IF rn = NULL THEN EraseNoRight(t, n, pn, f.dir)
                 ELSE IF rn \notin t.allocated THEN Stop(t, "ub")
                 ELSE IF t.heap[rn].edge[0] = NULL THEN EraseRightNoLeft(t, n, pn, rn, f.dir)
                 ELSE EraseRightLeft(t, n, rn),
               val |-> 1]

Init ==
    /\ root = NULL
    /\ m_size = 0
    /\ heap = [a \in Addr |-> Blank]
    /\ allocated = {}
    /\ st = "ok"
    /\ ret = Call("new", 0, 0, NULL)
    /\ it = NULL
    /\ seen = <<>>
    /\ trav = "stale"
    /\ keys = {}

\* a change of the tree ends the traversal in progress; the iterator keeps its node
Mutated ==
    /\ seen' = <<>>
    /\ trav' = "stale"
    /\ UNCHANGED it

Install(t) ==
    /\ root' = t.root
    /\ m_size' = t.m_size
    /\ heap' = t.heap
    /\ allocated' = t.allocated
    /\ st' = t.st

\* insert(x), root == NULL
InsertRoot(x) ==
    /\ st = "ok"
    /\ root = NULL
    /\ \E nn \in Addr \ allocated, l, r \in Ptr :
         LET h1 == create_node(heap, nn, x, NULL, l, r)
             live1 == allocated \cup {nn}
             b == begin(h1, live1, nn)
         IN  /\ heap' = h1
             /\ allocated' = live1
             /\ m_size' = Inc(m_size)
             /\ root' = nn
             /\ st' = b.st
             /\ ret' = Call("insert", x, 1, b.n)
    /\ keys' = keys \cup {x}
    /\ Mutated

\* insert(x), root != NULL
InsertWalkStep(x) ==
    /\ st = "ok"
    /\ root # NULL
    /\ LET w == InsertWalk(heap, allocated, x, root, MaxNodes)
       IN  IF w.st # "ok"
           THEN /\ st' = w.st
                /\ ret' = Call("insert", x, 0, NULL)
                /\ UNCHANGED <<root, m_size, heap, allocated, it, seen, trav, keys>>
           ELSE IF w.found
           THEN /\ ret' = Call("insert", x, 0, w.pn)
                /\ keys' = keys \cup {x}
                /\ UNCHANGED <<root, m_size, heap, allocated, st, it, seen, trav>>
           ELSE /\ \E nn \in Addr \ allocated, l, r \in Ptr :
                     LET h1 == create_node(heap, nn, x, w.pn, l, r)
                     IN  /\ heap' = [h1 EXCEPT ![w.pn].edge[w.dir] = nn]
                         /\ allocated' = allocated \cup {nn}
                         /\ ret' = Call("insert", x, 1, nn)
                /\ m_size' = Inc(m_size)
                /\ keys' = keys \cup {x}
                /\ Mutated
                /\ UNCHANGED <<root, st>>

Insert(x) == InsertRoot(x) \/ InsertWalkStep(x)

Erase(x) ==
    /\ st = "ok"
    /\ LET e == erase(Tree, x)
       IN  /\ Install(e.tree)
           /\ ret' = Call("erase", x, IF e.tree.st = "ok" THEN e.val ELSE 0, NULL)
           /\ keys' = IF e.tree.st = "ok" THEN keys \ {x} ELSE keys
           /\ IF e.val = 1 THEN Mutated ELSE UNCHANGED <<it, seen, trav>>

Clear ==
    /\ st = "ok"
    /\ Install(clear(Tree))
    /\ ret' = Call("clear", 0, 0, NULL)
    /\ keys' = IF clear(Tree).st = "ok" THEN {} ELSE keys
    /\ Mutated

\* find(x): iterator(find_node(x, dir), false)
Find(x) ==
    /\ st = "ok"
    /\ LET f == find_node(heap, allocated, root, x)
       IN  /\ st' = f.st
           /\ ret' = Call("find", x, 0, f.n)
    /\ UNCHANGED <<root, m_size, heap, allocated, it, seen, trav, keys>>

\* count(x): find_node(x, dir) ? 1 : 0
Count(x) ==
    /\ st = "ok"
    /\ LET f == find_node(heap, allocated, root, x)
       IN  /\ st' = f.st
           /\ ret' = Call("count", x, IF f.n # NULL THEN 1 ELSE 0, NULL)
    /\ UNCHANGED <<root, m_size, heap, allocated, it, seen, trav, keys>>

\* min(): node::left_most(root)->data
Min ==
    /\ st = "ok"
    /\ LET w == left_most(heap, allocated, root)
       IN  /\ st' = w.st
           /\ ret' = Call("min", 0, IF w.st = "ok" THEN heap[w.n].data ELSE 0, w.n)
    /\ UNCHANGED <<root, m_size, heap, allocated, it, seen, trav, keys>>

\* max(): node::right_most(root)->data
Max ==
    /\ st = "ok"
    /\ LET w == right_most(heap, allocated, root)
       IN  /\ st' = w.st
           /\ ret' = Call("max", 0, IF w.st = "ok" THEN heap[w.n].data ELSE 0, w.n)
    /\ UNCHANGED <<root, m_size, heap, allocated, it, seen, trav, keys>>

\* it = begin(); the key under the iterator is read
IterBegin ==
    /\ st = "ok"
    /\ LET b == begin(heap, allocated, root)
       IN  /\ st' = b.st
           /\ it' = b.n
           /\ seen' = IF b.n # NULL THEN <<heap[b.n].data>> ELSE <<>>
    /\ trav' = "live"
    /\ UNCHANGED <<root, m_size, heap, allocated, ret, keys>>

\* ++it; the key under the iterator is read
IterNext ==
    /\ st = "ok"
    /\ Len(seen) <= MaxNodes
    /\ LET s == successor(heap, allocated, it)
       IN  /\ st' = s.st
           /\ it' = s.n
           /\ seen' = IF trav = "live" /\ s.n # NULL
                      THEN Append(seen, heap[s.n].data) ELSE seen
    /\ UNCHANGED <<root, m_size, heap, allocated, ret, trav, keys>>

\* the container's operations
Next ==
    \/ \E x \in Keys : Insert(x)
    \/ \E x \in Keys : Erase(x)
    \/ Clear
    \/ \E x \in Keys : Find(x)
    \/ \E x \in Keys : Count(x)
    \/ Min
    \/ Max

Spec == Init /\ [][Next]_vars

\* changes of the tree, and an iterator over it
NextIter ==
    \/ \E x \in Keys : Insert(x)
    \/ \E x \in Keys : Erase(x)
    \/ Clear
    \/ IterBegin
    \/ IterNext

SpecIter == Init /\ [][NextIter]_vars

\* only insertions, and traversals of the tree they build
NextInsert ==
    \/ \E x \in Keys : Insert(x)
    \/ IterBegin
    \/ IterNext

SpecInsert == Init /\ [][NextInsert]_vars

(***************************************************************************)
(* What the claims speak of                                                *)
(***************************************************************************)
\* the cells reached from the cells of S over child links
RECURSIVE Closure(_, _)
Closure(S, k) ==
    IF k = 0 THEN S
    ELSE Closure(S \cup ({heap[a].edge[d] : a \in S \cap allocated, d \in 0..1} \ {NULL}), k - 1)

\* the nodes of the subtree hanging from link p
Sub(p) == IF p = NULL THEN {} ELSE Closure({p}, MaxNodes)

\* the nodes reachable from root
Reach == Sub(root)

Ordered ==
    \A n \in Reach \cap allocated :
        /\ \A m \in Sub(heap[n].edge[0]) \cap allocated : heap[m].data < heap[n].data
        /\ \A m \in Sub(heap[n].edge[1]) \cap allocated : heap[m].data > heap[n].data

Linked ==
    /\ root # NULL => root \in allocated /\ heap[root].parent = NULL
    /\ \A n \in Reach \cap allocated : \A d \in 0..1 :
          heap[n].edge[d] # NULL =>
              /\ heap[n].edge[d] \in allocated
              /\ heap[heap[n].edge[d]].parent = n
    /\ \A n \in (Reach \cap allocated) \ {root} : heap[n].parent # NULL

StrictlyAscending(s) == \A i \in 1..(Len(s) - 1) : s[i] < s[i + 1]

\* the container's state is the same before and after the step
TreeUnchanged == UNCHANGED <<root, m_size, heap, allocated>>

\* C1: after any sequence of insert, erase and clear calls, every key in a
\* node's left subtree is less than the node's key and every key in its right
\* subtree is greater
C1_Ordering == st = "ok" => Ordered

\* C2: after any sequence of insert, erase and clear calls, a child's parent
\* link is the node that holds it, the root's parent is null and no other
\* reachable node's parent is null
C2_ParentLinks == st = "ok" => Linked

\* C3: size() is the number of nodes reachable from root and the number of
\* distinct keys present, and empty() is true exactly when that number is 0
C3_Size ==
    st = "ok" =>
        /\ m_size = Cardinality(Reach)
        /\ m_size = Cardinality(keys)
        /\ (m_size = 0) = (keys = {})

\* C4: after insertions only, the traversal from begin() by operator++ reads
\* the keys in strictly ascending order
C4_Ascending == (st = "ok" /\ trav = "live") => StrictlyAscending(seen)

\* k is found by the search from root
Found(k) ==
    LET f == find_node(heap, allocated, root, k)
    IN  f.st = "ok" /\ f.n # NULL

\* C5: count(k) is 1, and find(k) is a position holding k, exactly when k was
\* inserted and not erased since; after erase(k), k is gone and every other
\* key of the set is still found
C5_Set ==
    st = "ok" =>
        /\ ret.op = "count" => ((ret.val = 1) = (ret.key \in keys))
        /\ ret.op = "find" =>
              ((ret.pos # end /\ heap[ret.pos].data = ret.key) = (ret.key \in keys))
        /\ ret.op = "erase" => \A k \in Keys : Found(k) = (k \in keys)

C7_Absent ==
    [][(st = "ok" /\ ret' # ret /\ ret'.op \in {"erase", "find", "count"}
          /\ ret'.key \notin keys)
         => /\ st' = "ok"
            /\ ret'.val = 0
            /\ ret'.pos = end
            /\ TreeUnchanged]_vars

\* C8: find(k) directly after insert(k) is a position equal to the one insert
\* returned, and find(k) directly after erase(k) is end()
C8_RoundTrip ==
    [][(st = "ok" /\ ret'.op = "find" /\ ret'.key = ret.key)
         => /\ ret.op = "insert" => (st' = "ok" /\ IterEq(heap, ret'.pos, ret.pos))
            /\ ret.op = "erase" => (st' = "ok" /\ ret'.pos = end)]_vars

\* C9: insert(k) directly after an erase(k) that removed k returns inserted =
\* true, and the tree is ordered afterwards
C9_Reinsert ==
    [][(st = "ok" /\ ret.op = "erase" /\ ret.val = 1
          /\ ret'.op = "insert" /\ ret'.key = ret.key)
         => (st' = "ok" /\ ret'.val = 1 /\ Ordered')]_vars

\* C10: the allocated nodes are the nodes reachable from root, no root, child
\* or parent link of an allocated node refers to a deallocated node, and no
\* operation deallocates or uses a node that is already deallocated
C10_Ownership ==
    /\ st # "ub"
    /\ st = "ok" =>
          /\ allocated = Reach
          /\ root \in allocated \cup {NULL}
          /\ \A n \in allocated :
                /\ heap[n].parent \in allocated \cup {NULL}
                /\ \A d \in 0..1 : heap[n].edge[d] \in allocated \cup {NULL}

\* C11: clear() returns having deallocated every node, children before their
\* parent and none read after it is deallocated; afterwards root is null,
\* size() is 0 and begin() equals end(); on an empty tree it changes nothing
C11_Clear ==
    [][(st = "ok" /\ ret'.op = "clear")
         => /\ st' = "ok"
            /\ root' = NULL
            /\ m_size' = 0
            /\ allocated' = {}
            /\ begin(heap', allocated', root') = Ok(end)
            /\ root = NULL => TreeUnchanged]_vars

SmallestKey == CHOOSE k \in keys : \A j \in keys : k <= j
LargestKey == CHOOSE k \in keys : \A j \in keys : k >= j

\* C12: on a non-empty tree min() returns the smallest and max() the largest
\* key of the set, and neither changes the tree
C12_MinMax ==
    [][(st = "ok" /\ root # NULL /\ ret'.op \in {"min", "max"})
         => /\ st' = "ok"
            /\ keys # {}
            /\ ret'.op = "min" => ret'.val = SmallestKey
            /\ ret'.op = "max" => ret'.val = LargestKey
            /\ TreeUnchanged]_vars

\* C13: min() and max() on an empty tree report a failure and do not
\* dereference an absent node
C13_MinMaxEmpty ==
    [][(st = "ok" /\ root = NULL /\ ret'.op \in {"min", "max"}) => st' # "ub"]_vars

\* the tree satisfies the ordering and the parent-link invariants
WellFormed == Ordered /\ Linked

KeysOf(S) == {heap[n].data : n \in S \cap allocated}

\* C14: in a tree that satisfies the ordering and parent-link invariants,
\* operator++ on a cursor at a node holding k moves it to the node holding the
\* smallest key greater than k, or past the end if there is none; a cursor
\* past the end stays there; begin() and operator++ do not change the tree
C14_Successor ==
    [][/\ (IterNext /\ WellFormed /\ it \in Reach \cup {NULL})
            => /\ st' = "ok"
               /\ TreeUnchanged
               /\ IF it = NULL THEN it' = NULL
                  ELSE LET G == {j \in KeysOf(Reach) : j > heap[it].data}
                       IN  IF G = {} THEN it' = NULL
                           ELSE /\ it' \in Reach
                                /\ heap[it'].data \in G
                                /\ \A j \in G : heap[it'].data <= j
       /\ IterBegin => TreeUnchanged]_vars

\* the cursor has been advanced twice through a sound tree of three nodes
C14_Witness ==
    /\ st = "ok"
    /\ WellFormed
    /\ trav = "live"
    /\ Cardinality(Reach) = 3
    /\ it \in Reach
    /\ Len(seen) = 3

\* C15: the traversal from begin() by operator++ reaches end() after exactly
\* size() advances and has then read every key of the set exactly once; on an
\* empty tree begin() equals end()
C15_FullTraversal ==
    (st = "ok" /\ trav = "live") =>
        /\ Len(seen) <= m_size
        /\ \A i, j \in 1..Len(seen) : seen[i] = seen[j] => i = j
        /\ it = end => (Len(seen) = m_size /\ {seen[i] : i \in 1..Len(seen)} = keys)
        /\ root = NULL => it = end

\* the node erase(x) finds, and which of the three cases of erase it falls in
\* (0: x is not found, or the search or the right child is not a live node)
Target(x) == find_node(heap, allocated, root, x).n

EraseCase(x) ==
    LET f == find_node(heap, allocated, root, x)
    IN  IF f.st # "ok" \/ f.n = NULL THEN 0
        ELSE LET rn == heap[f.n].edge[1]
             IN  IF rn = NULL THEN 1
                 ELSE IF rn \notin allocated THEN 0
                 ELSE IF heap[rn].edge[0] = NULL THEN 2
                 ELSE 3

\* the slot n hung from (its parent's edge to it, or root) refers to p afterwards
SlotHolds(n, p) ==
    IF heap[n].parent = NULL THEN root' = p
    ELSE \E d \in 0..1 : heap[heap[n].parent].edge[d] = n /\ heap'[heap[n].parent].edge[d] = p

\* the subtree hanging from link p is the same afterwards, but for p's own parent
SubtreeKept(p) ==
    \A m \in Sub(p) :
        /\ m \in allocated'
        /\ heap'[m].data = heap[m].data
        /\ heap'[m].edge = heap[m].edge
        /\ m # p => heap'[m].parent = heap[m].parent

\* C16: erase of a node n whose right child has a left child, s being the
\* left most node under n's right child: n keeps its parent and children and
\* holds s's former key, s's former parent's left link is s's former right
\* child, whose parent is s's former parent, and s's node is the one deallocated
C16_EraseRightLeft ==
    [][\A x \in Keys : (Erase(x) /\ EraseCase(x) = 3) =>
          LET n == Target(x)
              s == left_most(heap, allocated, heap[n].edge[1]).n
              sp == heap[s].parent
              sr == heap[s].edge[1]
          IN  /\ st' = "ok"
              /\ n \in allocated'
              /\ root' = root
              /\ heap'[n].parent = heap[n].parent
              /\ heap'[n].edge = heap[n].edge
              /\ heap'[n].data = heap[s].data
              /\ sp # NULL /\ heap'[sp].edge[0] = sr
              /\ sr # NULL => heap'[sr].parent = sp
              /\ allocated' = allocated \ {s}]_vars

\* C17: erase of a node n whose right child r has no left child: r takes n's
\* slot, r's parent is n's former parent, r's left child is n's former left
\* child whose parent is r, r's right subtree is unchanged and n is deallocated
C17_EraseRightNoLeft ==
    [][\A x \in Keys : (Erase(x) /\ EraseCase(x) = 2) =>
          LET n == Target(x)
              rn == heap[n].edge[1]
              left == heap[n].edge[0]
          IN  /\ st' = "ok"
              /\ SlotHolds(n, rn)
              /\ heap'[rn].parent = heap[n].parent
              /\ heap'[rn].edge[0] = left
              /\ left # NULL => heap'[left].parent = rn
              /\ heap'[rn].edge[1] = heap[rn].edge[1]
              /\ SubtreeKept(heap[rn].edge[1])
              /\ heap[rn].edge[1] # NULL => heap'[heap[rn].edge[1]].parent = rn
              /\ allocated' = allocated \ {n}]_vars

\* C18: erase of a node n without a right child: n's slot holds n's former
\* left child, whose parent is n's former parent and whose subtree is
\* unchanged, n is deallocated, and the tree is empty with root null when n
\* was the last node
C18_EraseNoRight ==
    [][\A x \in Keys : (Erase(x) /\ EraseCase(x) = 1) =>
          LET n == Target(x)
              left == heap[n].edge[0]
          IN  /\ st' = "ok"
              /\ SlotHolds(n, left)
              /\ left # NULL => heap'[left].parent = heap[n].parent
              /\ SubtreeKept(left)
              /\ allocated' = allocated \ {n}
              /\ allocated = {n} => (root' = NULL /\ m_size' = 0)]_vars

\* C19: immediately after insert(x) returns inserted = true the new node holds
\* x, its parent is the node whose absent child slot it fills (null for the
\* root), both its child links are null, and every node that existed before
\* keeps its key, parent and child links but for the one edge (or root) that
\* now refers to the new node
C19_NewLeaf ==
    [][\A x \in Keys : (Insert(x) /\ st' = "ok" /\ ret'.val = 1) =>
          \E nn \in Addr \ allocated :
              /\ allocated' = allocated \cup {nn}
              /\ ret'.pos = nn
              /\ heap'[nn].data = x
              /\ heap'[nn].edge[0] = NULL
              /\ heap'[nn].edge[1] = NULL
              /\ IF root = NULL
                 THEN /\ root' = nn
                      /\ heap'[nn].parent = NULL
                      /\ \A a \in allocated : heap'[a] = heap[a]
                 ELSE /\ root' = root
                      /\ heap'[nn].parent \in allocated
                      /\ \E d \in 0..1 :
                            /\ heap[heap'[nn].parent].edge[d] = NULL
                            /\ heap'[heap'[nn].parent] =
                                  [heap[heap'[nn].parent] EXCEPT !.edge[d] = nn]
                      /\ \A a \in allocated \ {heap'[nn].parent} : heap'[a] = heap[a]]_vars

\* the iterator is on a live node whose key is not x, and erase(x) finds x
CursorElsewhere(x) == it \in allocated /\ heap[it].data # x /\ EraseCase(x) # 0

\* C20 as stated, on a tree that satisfies the ordering and parent-link
\* invariants: a cursor on a node holding j is, after erase(k) of a present
\* key k # j, still on a live node holding j, in each of the three cases
C20_CursorStable ==
    [][\A x \in Keys : (Erase(x) /\ st' = "ok" /\ WellFormed /\ CursorElsewhere(x)) =>
          (it' \in allocated' /\ heap'[it'].data = heap[it].data)]_vars

\* C20: after erase(k) of a present key k # j has returned, a cursor on a node
\* holding j is still on a live node holding j, unless erase took its third
\* case and the cursor was on s, the left most node under n's right child:
\* then the cursor's node is deallocated and j is the key of n's node
C20_CursorStableButSuccessor ==
    [][\A x \in Keys : (Erase(x) /\ st' = "ok" /\ CursorElsewhere(x)) =>
          IF EraseCase(x) = 3
               /\ it = left_most(heap, allocated, heap[Target(x)].edge[1]).n
          THEN /\ it' \notin allocated'
               /\ Target(x) \in allocated'
               /\ heap'[Target(x)].data = heap[it].data
          ELSE it' \in allocated' /\ heap'[it'].data = heap[it].data]_vars

\* erase of a smaller key has returned and left two keys, no traversal was
\* begun since, and the iterator is on the root's right child, a live node
C20_Witness ==
    /\ st = "ok"
    /\ WellFormed
    /\ ret.op = "erase" /\ ret.val = 1
    /\ trav = "stale"
    /\ m_size = 2
    /\ it \in allocated
    /\ it = heap[root].edge[1]
    /\ heap[it].data # ret.key
    /\ heap[root].data > ret.key
=============================================================================
